---- MODULE Spec2Model ----
(***************************************************************************)
(* Model of the LcdMenu navigation engine (src/src/LcdMenu.h) together     *)
(* with the List and Progress items (src/src/ItemList.h,                   *)
(* src/src/ItemProgress.h).                                                *)
(*                                                                         *)
(* A menu table is the zero-based array [header, entry_1 .. entry_n, end]. *)
(* Three tables are supplied to the engine: the root table, a sub-menu of  *)
(* the root and a sub-menu of that sub-menu.  The hidden flags, the number *)
(* of display rows, the item count of the list and the step length and     *)
(* start value of the progress item are chosen at construction.            *)
(***************************************************************************)
EXTENDS Integers, Sequences, FiniteSets, TLC

\* ------------------------------------------------------------------------
\* Bounds of the model
\* ------------------------------------------------------------------------
MaxRows == 3

MaxHidden == 2

MaxItems == 3

MaxStep == 3

MaxGestures == 3

\* ------------------------------------------------------------------------
\* Program constants
\* ------------------------------------------------------------------------
MIN_PROGRESS == 0

MAX_PROGRESS == 1000

U8 == 256

U16 == 65536

\* ------------------------------------------------------------------------
\* The menu tables handed to setupLcdWithMenu
\* ------------------------------------------------------------------------
Item(type, sub) == [type |-> type, sub |-> sub]

\* a root table with a sub-menu that has a sub-menu of its own
NavMenu ==
  [ root   |-> << Item("MENU_ITEM_MAIN_MENU_HEADER", "NULL"),
                  Item("MENU_ITEM_COMMAND", "NULL"),
                  Item("MENU_ITEM_SUB_MENU", "sub"),
                  Item("MENU_ITEM_COMMAND", "NULL"),
                  Item("MENU_ITEM_INPUT", "NULL"),
                  Item("MENU_ITEM_SUB_MENU", "NULL"),
                  Item("MENU_ITEM_END_OF_MENU", "NULL") >>,
    sub    |-> << Item("MENU_ITEM_SUB_MENU_HEADER", "root"),
                  Item("MENU_ITEM_LIST", "NULL"),
                  Item("MENU_ITEM_PROGRESS", "NULL"),
                  Item("MENU_ITEM_SUB_MENU", "subsub"),
                  Item("MENU_ITEM_COMMAND", "NULL"),
                  Item("MENU_ITEM_END_OF_MENU", "NULL") >>,
    subsub |-> << Item("MENU_ITEM_SUB_MENU_HEADER", "sub"),
                  Item("MENU_ITEM_COMMAND", "NULL"),
                  Item("MENU_ITEM_COMMAND", "NULL"),
                  Item("MENU_ITEM_END_OF_MENU", "NULL") >> ]

\* a root table with one list
ListMenu ==
  [ root |-> << Item("MENU_ITEM_MAIN_MENU_HEADER", "NULL"),
                Item("MENU_ITEM_LIST", "NULL"),
                Item("MENU_ITEM_END_OF_MENU", "NULL") >> ]

\* a root table with one progress item
ProgressMenu ==
  [ root |-> << Item("MENU_ITEM_MAIN_MENU_HEADER", "NULL"),
                Item("MENU_ITEM_PROGRESS", "NULL"),
                Item("MENU_ITEM_END_OF_MENU", "NULL") >> ]

\* the entries between header and end marker, as <<table, index>>
EntriesOf(m) ==
  UNION { { <<tab, i>> : i \in 1..(Len(m[tab]) - 2) } : tab \in DOMAIN m }

ItemsOfType(m, type) == { e \in EntriesOf(m) : m[e[1]][e[2] + 1].type = type }

VARIABLES
  \* the tables
  menu,
  \* LcdMenu fields
  cursorPosition, top, bottom, isEditModeEnabled, isCharPickerActive,
  maxRows, currentMenuTable, currentMenuSize, enableUpdate,
  \* MenuItem fields
  hidden,            \* hidden flag of every entry
  memento,           \* top/bottom/cursorPosition stored in each header
  itemCount, itemIndex, initialItemIndex,       \* ItemList
  stepLength, progress, initialProgress,        \* ItemProgress
  \* what is on the display
  lcd,
  \* observation of the calls
  lastOp,            \* the last handler called
  ret,               \* what up() or down() returned
  notes,             \* notifications invoked by the last call
  lastLeft,          \* table, cursor and window left by the last call
  leftAt,            \* per table, the cursor and window it had when enter()
                     \* last left it for a sub-menu
  editStart,         \* entry and value at the start of the edit in course
                     \* and whether a gesture has changed the value since;
                     \* the call that ends the edit keeps only that flag
  downRun,           \* successful down() calls in a row since the cursor
                     \* was put on entry 1, -1 once another call came
  budget             \* increment()/decrement() calls still to be issued

\* the indices of a zero-based table, from the header to the end marker
InTable(tab, i) == i \in 0..(Len(menu[tab]) - 1)

\* what a read outside the table yields
OutOfTableItem == [type |-> "OUT_OF_TABLE", sub |-> "NULL"]

\* menu[i] of a zero-based table
At(tab, i) == IF InTable(tab, i) THEN menu[tab][i + 1] ELSE OutOfTableItem

Entries == EntriesOf(menu)

navVars == << cursorPosition, top, bottom, isEditModeEnabled,
              currentMenuTable, currentMenuSize >>

cfgVars == << menu, maxRows, hidden, itemCount, stepLength >>

valVars == << itemIndex, initialItemIndex, progress, initialProgress >>

vars == << menu, cursorPosition, top, bottom, isEditModeEnabled,
           isCharPickerActive, maxRows, currentMenuTable, currentMenuSize,
           enableUpdate, hidden, memento, itemCount, itemIndex,
           initialItemIndex, stepLength, progress, initialProgress, lcd,
           lastOp, ret, notes, lastLeft, leftAt, editStart, downRun,
           budget >>

\* ------------------------------------------------------------------------
\* Helpers of the Arduino core used by the code
\* ------------------------------------------------------------------------
Constrain(amt, low, high) ==
  IF amt < low THEN low ELSE IF amt > high THEN high ELSE amt

Map(x, inMin, inMax, outMin, outMax) ==
  ((x - inMin) * (outMax - outMin)) \div (inMax - inMin) + outMin

\* ------------------------------------------------------------------------
\* MenuItem accessors
\* ------------------------------------------------------------------------
isHidden(tab, i) ==
  IF i \in 1..(Len(menu[tab]) - 2) THEN hidden[<<tab, i>>] ELSE FALSE

getType(tab, i) == At(tab, i).type

RECURSIVE MenuSizeFrom(_, _)
MenuSizeFrom(tab, s) ==
  IF getType(tab, s) # "MENU_ITEM_END_OF_MENU" THEN MenuSizeFrom(tab, s + 1)
  ELSE s + 1

getMenuSize(tab) == MenuSizeFrom(tab, 0)

\* isSubMenu that never recognises a sub-menu header
isSubMenu_never == FALSE

isSubMenu == getType(currentMenuTable, 0) = "MENU_ITEM_SUB_MENU_HEADER"

\* ------------------------------------------------------------------------
\* Scans over the hidden flags
\* ------------------------------------------------------------------------
checkAllAboveHidden(tab, cursor) ==
  \A i \in 1..(cursor - 1) : isHidden(tab, i)

checkAllBelowHidden(tab, size, cursor) ==
  \A i \in (cursor + 1)..(size - 3) : isHidden(tab, i)

countNonHiddenAbove(tab, cursor) ==
  Cardinality({ i \in 1..(cursor - 1) : ~isHidden(tab, i) }) % U8

countNonHiddenBelow(tab, size, cursor) ==
  Cardinality({ i \in (cursor + 1)..(size - 3) : ~isHidden(tab, i) }) % U8

RECURSIVE CountFrom(_, _, _)
CountFrom(tab, idx, res) ==
  IF getType(tab, idx) # "MENU_ITEM_END_OF_MENU"
  THEN CountFrom(tab, idx + 1, IF ~isHidden(tab, idx) THEN res + 1 ELSE res)
  ELSE res

\* countNonHiddenItems that counts the hidden entries too
countNonHiddenItems_all(tab) == (getMenuSize(tab) - 2) % U8

countNonHiddenItems(tab) == CountFrom(tab, 1, 0) % U8

RECURSIVE StartScan(_, _)
StartScan(tab, i) ==
  IF ~isHidden(tab, i) THEN i = 0 ELSE StartScan(tab, i - 1)

isAtTheStart(tab, cursor) == StartScan(tab, cursor - 1)

RECURSIVE EndScan(_, _, _)
EndScan(tab, size, i) ==
  IF i < size
  THEN IF ~isHidden(tab, i) THEN i = size - 1 ELSE EndScan(tab, size, i + 1)
  ELSE TRUE

\* isAtTheEnd that looks at the next index only
isAtTheEnd_nextOnly(tab, size, cursor) == cursor + 1 >= size - 1

isAtTheEnd(tab, size, cursor) == EndScan(tab, size, cursor + 1)

\* ------------------------------------------------------------------------
\* The table indices the scans read.  A size_t index that starts below 0
\* wraps to the largest value: -1 stands for it.
\* ------------------------------------------------------------------------
\* checkAllAboveHidden: from cursor - 1 down to 1, until an entry is shown
checkAllAboveHiddenReads(tab, cursor) ==
  IF cursor = 0 THEN { -1 }
  ELSE { i \in 1..(cursor - 1) :
           \A j \in (i + 1)..(cursor - 1) : isHidden(tab, j) }

\* checkAllBelowHidden: from cursor + 1 while i < size - 2, until shown
checkAllBelowHiddenReads(tab, size, cursor) ==
  { i \in (cursor + 1)..(size - 3) :
      \A j \in (cursor + 1)..(i - 1) : isHidden(tab, j) }

\* countNonHiddenAbove: every index from cursor - 1 down to 1
countNonHiddenAboveReads(tab, cursor) ==
  IF cursor = 0 THEN { -1 } ELSE 1..(cursor - 1)

\* countNonHiddenBelow: every index from cursor + 1 while i < size - 2
countNonHiddenBelowReads(tab, size, cursor) == (cursor + 1)..(size - 3)

\* countNonHiddenItems: from 1 to the first end marker
countNonHiddenItemsReads(tab) == 1..(getMenuSize(tab) - 1)

\* getMenuSize: from 0 to the first end marker
getMenuSizeReads(tab) == 0..(getMenuSize(tab) - 1)

\* isAtTheStart: from cursor - 1 downwards until an entry is shown; the
\* condition i >= 0 of the loop never fails
isAtTheStartReads(tab, cursor) ==
  IF cursor = 0 THEN { -1 }
  ELSE { i \in 0..(cursor - 1) :
           \A j \in (i + 1)..(cursor - 1) : isHidden(tab, j) }
       \cup ( IF \A j \in 0..(cursor - 1) : isHidden(tab, j)
              THEN { -1 } ELSE { } )

\* isAtTheEnd: from cursor + 1 while i < size, until an entry is shown
isAtTheEndReads(tab, size, cursor) ==
  { i \in (cursor + 1)..(size - 1) :
      \A j \in (cursor + 1)..(i - 1) : isHidden(tab, j) }

\* ------------------------------------------------------------------------
\* Drawing
\* ------------------------------------------------------------------------
BlankRows == [r \in 0..(maxRows - 1) |-> 0]

BlankLcd == [rows |-> BlankRows, up |-> FALSE, down |-> FALSE,
             cursor |-> -1, editIcon |-> FALSE]

RECURSIVE SkipHidden(_, _)
SkipHidden(tab, t) ==
  IF isHidden(tab, t) THEN SkipHidden(tab, (t + 1) % U8) ELSE t

\* drawMenu that fills every row of the window, end marker or not
RECURSIVE DrawLoop_noBreak(_, _, _, _, _, _, _)
DrawLoop_noBreak(tab, tp, bt, i, t, first, rows) ==
  IF i > bt THEN [t |-> t, first |-> first, rows |-> rows, reads |-> { }]
  ELSE LET t2 == SkipHidden(tab, t)
           f2 == IF first = 255 THEN t2 ELSE first
           row == Map(i, tp, bt, 0, maxRows - 1)
           d == DrawLoop_noBreak(tab, tp, bt, i + 1, (t2 + 1) % U8, f2,
                                 [rows EXCEPT ![row] = t2])
       IN [d EXCEPT !.reads = @ \cup (t..t2)]

\* the for loop of drawMenu: i is the loop variable, t the table index,
\* first the index of the first drawn item, rows the rows printed so far,
\* reads the table indices the loop has read
RECURSIVE DrawLoop(_, _, _, _, _, _, _)
DrawLoop(tab, tp, bt, i, t, first, rows) ==
  IF i > bt THEN [t |-> t, first |-> first, rows |-> rows, reads |-> { }]
  ELSE LET t2 == SkipHidden(tab, t)
           f2 == IF first = 255 THEN t2 ELSE first
           row == Map(i, tp, bt, 0, maxRows - 1)
       IN IF getType(tab, t2) = "MENU_ITEM_END_OF_MENU"
          THEN [t |-> t2, first |-> f2, rows |-> rows, reads |-> t..t2]
          ELSE LET d == DrawLoop(tab, tp, bt, i + 1, (t2 + 1) % U8, f2,
                                 [rows EXCEPT ![row] = t2])
               IN [d EXCEPT !.reads = @ \cup (t..t2)]

drawMenu(tab, size, tp, bt, cur, edit) ==
  LET d == DrawLoop(tab, tp, bt, tp, tp, 255, BlankRows)
      drawn == [BlankLcd EXCEPT !.rows = d.rows]
      nonHidden == countNonHiddenItems(tab)
      line0 == Constrain(cur - tp, 0, maxRows - 1)
      cursorLine == IF checkAllAboveHidden(tab, cur) /\ line0 # 0
                    THEN 0 ELSE line0
      upArrow == \/ /\ cursorLine = 0
                    /\ ~checkAllAboveHidden(tab, d.first)
                    /\ cur > 1
                 \/ /\ cursorLine # 0
                    /\ countNonHiddenAbove(tab, d.first) # 0
      lastDrawnItemIdx == (d.t - 1) % U8
      downArrow == countNonHiddenBelow(tab, size, lastDrawnItemIdx) # 0
  IN IF edit THEN drawn
     ELSE IF nonHidden <= maxRows THEN drawn
     ELSE [drawn EXCEPT !.up = upArrow, !.down = downArrow]

drawCursor(screen, tab, tp, cur, edit) ==
  LET line0 == Constrain(cur - tp, 0, maxRows - 1)
      line == IF checkAllAboveHidden(tab, cur) THEN 0 ELSE line0
  IN [screen EXCEPT !.cursor = line, !.editIcon = edit]

update(screen, en, tab, size, tp, bt, cur, edit) ==
  IF ~en THEN screen
  ELSE drawCursor(drawMenu(tab, size, tp, bt, cur, edit), tab, tp, cur, edit)

\* the table indices drawMenu reads
drawMenuReads(tab, size, tp, bt, cur, edit) ==
  LET d == DrawLoop(tab, tp, bt, tp, tp, 255, BlankRows)
      line0 == Constrain(cur - tp, 0, maxRows - 1)
      cursorLine == IF checkAllAboveHidden(tab, cur) /\ line0 # 0
                    THEN 0 ELSE line0
      lastDrawnItemIdx == (d.t - 1) % U8
  IN d.reads
     \cup ( IF edit THEN { }
            ELSE countNonHiddenItemsReads(tab)
                 \cup ( IF countNonHiddenItems(tab) <= maxRows THEN { }
                        ELSE checkAllAboveHiddenReads(tab, cur)
                             \cup ( IF cursorLine = 0
                                    THEN checkAllAboveHiddenReads(tab, d.first)
                                    ELSE countNonHiddenAboveReads(tab, d.first) )
                             \cup countNonHiddenBelowReads(tab, size,
                                                           lastDrawnItemIdx) ) )

\* the table indices drawCursor reads
drawCursorReads(tab, cur) == checkAllAboveHiddenReads(tab, cur) \cup { cur }

\* the table indices update() reads
updateReads(en, tab, size, tp, bt, cur, edit) ==
  IF ~en THEN { }
  ELSE drawMenuReads(tab, size, tp, bt, cur, edit)
       \cup drawCursorReads(tab, cur)

\* ------------------------------------------------------------------------
\* Construction: LcdMenu(maxRows, maxCols) followed by setupLcdWithMenu
\* ------------------------------------------------------------------------
\* at most MaxHidden hidden entries, all of them in one table
HiddenChoices(m) ==
  { h \in [EntriesOf(m) -> BOOLEAN] :
      /\ Cardinality({ e \in EntriesOf(m) : h[e] }) <= MaxHidden
      /\ \A e1, e2 \in EntriesOf(m) : h[e1] /\ h[e2] => e1[1] = e2[1] }

NoneHidden(m) == [e \in EntriesOf(m) |-> FALSE]

StartChoices ==
  { MIN_PROGRESS, MIN_PROGRESS + 1, MAX_PROGRESS - 1, MAX_PROGRESS }

NoLeft == [tab |-> "NULL", cursorPosition |-> 0, top |-> 0, bottom |-> 0,
           returned |-> FALSE]

NoEdit == [tab |-> "NULL", idx |-> 0, value |-> 0, moved |-> FALSE]

\* the observation of an edit lasts as long as the edit
KeptEdit == IF isEditModeEnabled THEN editStart ELSE NoEdit

Setup(m, rows, hid, count, step, start, calls) ==
  /\ menu = m
  /\ maxRows = rows
  /\ hidden = hid
  /\ itemCount = count
  /\ stepLength = step
  /\ cursorPosition = 1
  /\ top = 1
  /\ bottom = rows
  /\ isEditModeEnabled = FALSE
  /\ isCharPickerActive = FALSE
  /\ enableUpdate = TRUE
  /\ currentMenuTable = "root"
  /\ currentMenuSize = getMenuSize("root")
  /\ memento = [tab \in DOMAIN m |->
                  [top |-> 0, bottom |-> 0, cursorPosition |-> 0]]
  /\ itemIndex = [e \in ItemsOfType(m, "MENU_ITEM_LIST") |-> 0]
  /\ initialItemIndex = [e \in ItemsOfType(m, "MENU_ITEM_LIST") |-> 0]
  /\ progress = [e \in ItemsOfType(m, "MENU_ITEM_PROGRESS") |-> start]
  /\ initialProgress = [e \in ItemsOfType(m, "MENU_ITEM_PROGRESS") |-> start]
  /\ lcd = update(BlankLcd, TRUE, "root", getMenuSize("root"), 1, rows, 1,
                  FALSE)
  /\ lastOp = "setup"
  /\ ret = "void"
  /\ notes = << >>
  /\ lastLeft = NoLeft
  /\ leftAt = [tab \in DOMAIN m |->
                 [top |-> 0, bottom |-> 0, cursorPosition |-> 0]]
  /\ editStart = NoEdit
  /\ downRun = 0
  /\ budget = calls

Init ==
  \/ \E rows \in 2..MaxRows, hid \in HiddenChoices(NavMenu) :
        Setup(NavMenu, rows, hid, 1, 1, MIN_PROGRESS, 0)
  \/ \E rows \in 2..MaxRows, count \in 1..MaxItems :
        Setup(ListMenu, rows, NoneHidden(ListMenu), count, 1, MIN_PROGRESS, 0)
  \/ \E step \in 1..MaxStep, start \in StartChoices :
        Setup(ProgressMenu, 2, NoneHidden(ProgressMenu), 1, step, start,
              MaxGestures)

\* ------------------------------------------------------------------------
\* ItemList and ItemProgress
\* ------------------------------------------------------------------------
\* setItemIndex with a signed parameter
setItemIndex_signed(param, count) == Constrain(param, 0, count - 1)

\* ItemList::setItemIndex: the parameter is a uint16_t
setItemIndex(param, count) == Constrain(param % U16, 0, count - 1)

\* the index right() asks for and setItemIndex stores
cycleRight(i, count) == setItemIndex((i + 1) % count, count)

\* the index left() asks for and setItemIndex stores
cycleLeft(i, count) == setItemIndex(i - 1, count)

increment(p, step) ==
  IF p >= MAX_PROGRESS THEN p ELSE (p + step) % U16

decrement(p, step) ==
  IF p <= MIN_PROGRESS THEN p ELSE (p - step) % U16

\* saveProgress of the item e
saveProgress(saved, current, e) == [saved EXCEPT ![e] = current[e]]

\* restoreProgress that leaves the edited value
restoreProgress_keeps(current, saved, e) == current

\* restoreProgress of the item e
restoreProgress(current, saved, e) == [current EXCEPT ![e] = saved[e]]

\* getItemIndex of the entry e: the list index, the progress, 0 in MenuItem
getItemIndex(e, idx, prog) ==
  IF e \in DOMAIN idx THEN idx[e]
  ELSE IF e \in DOMAIN prog THEN prog[e]
  ELSE 0

\* ------------------------------------------------------------------------
\* The handlers of LcdMenu
\* ------------------------------------------------------------------------
curEntry == <<currentMenuTable, cursorPosition>>

curType == getType(currentMenuTable, cursorPosition)

\* up() without the edit mode test
RECURSIVE UpLoop_whileEditing(_, _)
UpLoop_whileEditing(cur, numSkipped) ==
  IF isAtTheStart(currentMenuTable, cur)
  THEN [ok |-> FALSE, cur |-> cur, numSkipped |-> numSkipped]
  ELSE LET c2 == (cur - 1) % U8
       IN IF isHidden(currentMenuTable, c2)
          THEN UpLoop_whileEditing(c2, numSkipped + 1)
          ELSE [ok |-> TRUE, cur |-> c2, numSkipped |-> numSkipped + 1]

\* the do-while loop of up(): ok is FALSE when the loop returned false
RECURSIVE UpLoop(_, _)
UpLoop(cur, numSkipped) ==
  IF isAtTheStart(currentMenuTable, cur) \/ isEditModeEnabled
  THEN [ok |-> FALSE, cur |-> cur, numSkipped |-> numSkipped]
  ELSE LET c2 == (cur - 1) % U8
       IN IF isHidden(currentMenuTable, c2) THEN UpLoop(c2, numSkipped + 1)
          ELSE [ok |-> TRUE, cur |-> c2, numSkipped |-> numSkipped + 1]

\* down() that steps to the next entry, hidden or not
DownLoop_noSkip(cur, numSkipped) ==
  IF isAtTheEnd(currentMenuTable, currentMenuSize, cur) \/ isEditModeEnabled
  THEN [ok |-> FALSE, cur |-> cur, numSkipped |-> numSkipped]
  ELSE [ok |-> TRUE, cur |-> (cur + 1) % U8, numSkipped |-> numSkipped + 1]

\* down() without the edit mode test
RECURSIVE DownLoop_whileEditing(_, _)
DownLoop_whileEditing(cur, numSkipped) ==
  IF isAtTheEnd(currentMenuTable, currentMenuSize, cur)
  THEN [ok |-> FALSE, cur |-> cur, numSkipped |-> numSkipped]
  ELSE LET c2 == (cur + 1) % U8
       IN IF isHidden(currentMenuTable, c2)
          THEN DownLoop_whileEditing(c2, numSkipped + 1)
          ELSE [ok |-> TRUE, cur |-> c2, numSkipped |-> numSkipped + 1]

\* the do-while loop of down()
RECURSIVE DownLoop(_, _)
DownLoop(cur, numSkipped) ==
  IF isAtTheEnd(currentMenuTable, currentMenuSize, cur) \/ isEditModeEnabled
  THEN [ok |-> FALSE, cur |-> cur, numSkipped |-> numSkipped]
  ELSE LET c2 == (cur + 1) % U8
       IN IF isHidden(currentMenuTable, c2) THEN DownLoop(c2, numSkipped + 1)
          ELSE [ok |-> TRUE, cur |-> c2, numSkipped |-> numSkipped + 1]

\* up() that moves top and forgets bottom
UpWindow_topOnly(cur, wasAtTop) ==
  IF cur < top /\ wasAtTop
  THEN [top |-> cur, bottom |-> bottom]
  ELSE [top |-> top, bottom |-> bottom]

\* the window after a successful up()
UpWindow(cur, wasAtTop) ==
  IF cur < top /\ wasAtTop
  THEN [top |-> cur, bottom |-> (cur + maxRows - 1) % U8]
  ELSE [top |-> top, bottom |-> bottom]

\* the window after a successful down()
DownWindow(cur, numSkipped, wasAtBottom) ==
  IF cur > bottom /\ wasAtBottom
  THEN LET t == (cur - numSkipped - 1) % U8
       IN [top |-> t, bottom |-> (t + maxRows - 1) % U8]
  ELSE [top |-> top, bottom |-> bottom]

up ==
  LET line0 == Constrain(cursorPosition - top, 0, maxRows - 1)
      cursorLine == IF checkAllAboveHidden(currentMenuTable, cursorPosition)
                    THEN 0 ELSE line0
      wasAtTop == cursorLine = 0
      r == UpLoop(cursorPosition, 1)
      w == UpWindow(r.cur, wasAtTop)
  IN /\ lastOp' = "up"
     /\ notes' = << >>
     /\ lastLeft' = NoLeft
     /\ cursorPosition' = r.cur
     /\ IF r.ok
        THEN /\ ret' = "true"
             /\ top' = w.top
             /\ bottom' = w.bottom
             /\ lcd' = update(lcd, enableUpdate, currentMenuTable,
                              currentMenuSize, w.top, w.bottom, r.cur,
                              isEditModeEnabled)
        ELSE /\ ret' = "false"
             /\ UNCHANGED << top, bottom, lcd >>
     /\ downRun' = -1
     /\ editStart' = KeptEdit
     /\ UNCHANGED << isEditModeEnabled, isCharPickerActive, currentMenuTable,
                     currentMenuSize, enableUpdate, memento, leftAt, cfgVars, valVars,
                     budget >>

down ==
  LET line0 == Constrain(cursorPosition - top, 0, maxRows - 1)
      cursorLine == IF checkAllBelowHidden(currentMenuTable, currentMenuSize,
                                           cursorPosition)
                    THEN maxRows - 1 ELSE line0
      wasAtBottom == cursorLine = maxRows - 1
      r == DownLoop(cursorPosition, -1)
      w == DownWindow(r.cur, r.numSkipped, wasAtBottom)
  IN /\ lastOp' = "down"
     /\ notes' = << >>
     /\ lastLeft' = NoLeft
     /\ cursorPosition' = r.cur
     /\ IF r.ok
        THEN /\ ret' = "true"
             /\ top' = w.top
             /\ bottom' = w.bottom
             /\ lcd' = update(lcd, enableUpdate, currentMenuTable,
                              currentMenuSize, w.top, w.bottom, r.cur,
                              isEditModeEnabled)
        ELSE /\ ret' = "false"
             /\ UNCHANGED << top, bottom, lcd >>
     /\ downRun' = IF downRun >= 0 /\ r.ok THEN downRun + 1 ELSE downRun
     /\ editStart' = KeptEdit
     /\ UNCHANGED << isEditModeEnabled, isCharPickerActive, currentMenuTable,
                     currentMenuSize, enableUpdate, memento, leftAt, cfgVars, valVars,
                     budget >>

\* enterSubMenu that stores the values after resetting them
SavedInHeader_afterReset(m, tab) ==
  [m EXCEPT ![tab] = [top |-> 1, bottom |-> maxRows, cursorPosition |-> 1]]

\* what enterSubMenu stores in the header of the table being left
SavedInHeader(m, tab) ==
  [m EXCEPT ![tab] = [top |-> top, bottom |-> bottom,
                      cursorPosition |-> cursorPosition]]

\* enterSubMenu that keeps the cursor and the window of the table it leaves
enterSubMenu_keepsWindow(sub) ==
  /\ memento' = SavedInHeader(memento, currentMenuTable)
  /\ currentMenuTable' = sub
  /\ currentMenuSize' = getMenuSize(sub)
  /\ lcd' = update(lcd, enableUpdate, sub, getMenuSize(sub), top, bottom,
                   cursorPosition, isEditModeEnabled)
  /\ UNCHANGED << top, bottom, cursorPosition >>

enterSubMenu(sub) ==
  /\ memento' = SavedInHeader(memento, currentMenuTable)
  /\ top' = 1
  /\ bottom' = maxRows
  /\ cursorPosition' = 1
  /\ currentMenuTable' = sub
  /\ currentMenuSize' = getMenuSize(sub)
  /\ lcd' = update(lcd, enableUpdate, sub, getMenuSize(sub), 1, maxRows, 1,
                   isEditModeEnabled)

\* leaveSubMenu that starts the parent table from its first entry
RestoredFromHeader_first(m, tab) ==
  [top |-> 1, bottom |-> maxRows, cursorPosition |-> 1]

\* what leaveSubMenu reads back from the header of the table it activates
RestoredFromHeader(m, tab) == m[tab]

\* leaveSubMenu that goes back to the main menu
leaveSubMenu_toRoot(parent) ==
  LET h == RestoredFromHeader(memento, "root")
  IN /\ currentMenuTable' = "root"
     /\ currentMenuSize' = getMenuSize("root")
     /\ top' = h.top
     /\ bottom' = h.bottom
     /\ cursorPosition' = h.cursorPosition
     /\ lcd' = update(lcd, enableUpdate, "root", getMenuSize("root"), h.top,
                      h.bottom, h.cursorPosition, isEditModeEnabled)

leaveSubMenu(parent) ==
  LET h == RestoredFromHeader(memento, parent)
  IN /\ currentMenuTable' = parent
     /\ currentMenuSize' = getMenuSize(parent)
     /\ top' = h.top
     /\ bottom' = h.bottom
     /\ cursorPosition' = h.cursorPosition
     /\ lcd' = update(lcd, enableUpdate, parent, getMenuSize(parent), h.top,
                      h.bottom, h.cursorPosition, isEditModeEnabled)

\* update() with the navigation state left as it is
Redraw(edit) ==
  update(lcd, enableUpdate, currentMenuTable, currentMenuSize, top, bottom,
         cursorPosition, edit)

\* enter() that takes the snapshot on every call
SnapshotOnEnter_always(editing, saved, current, e) ==
  saveProgress(saved, current, e)

\* the snapshot after enter() on a list or progress entry: saveProgress()
\* is called only when edit mode was off
SnapshotOnEnter(editing, saved, current, e) ==
  IF ~editing THEN saveProgress(saved, current, e) ELSE saved

enter ==
  LET item == At(currentMenuTable, cursorPosition)
      e == curEntry
  IN /\ lastOp' = "enter"
     /\ \/ /\ item.type = "MENU_ITEM_SUB_MENU"
           /\ item.sub = "NULL"
           /\ notes' = << >>
           /\ lastLeft' = NoLeft
           /\ downRun' = -1
           /\ editStart' = KeptEdit
           /\ UNCHANGED << navVars, memento, leftAt, lcd, valVars >>
        \/ /\ item.type = "MENU_ITEM_SUB_MENU"
           /\ item.sub # "NULL"
           /\ notes' = << >>
           /\ enterSubMenu(item.sub)
           /\ lastLeft' = [tab |-> currentMenuTable,
                           cursorPosition |-> cursorPosition,
                           top |-> top, bottom |-> bottom,
                           returned |-> FALSE]
           /\ leftAt' = [leftAt EXCEPT ![currentMenuTable] =
                           [top |-> top, bottom |-> bottom,
                            cursorPosition |-> cursorPosition]]
           /\ downRun' = 0
           /\ editStart' = KeptEdit
           /\ UNCHANGED << isEditModeEnabled, valVars >>
        \/ /\ item.type = "MENU_ITEM_COMMAND"
           /\ notes' = << <<"command", 0>> >>
           /\ lastLeft' = NoLeft
           /\ downRun' = -1
           /\ lcd' = Redraw(isEditModeEnabled)
           /\ editStart' = KeptEdit
           /\ UNCHANGED << navVars, memento, leftAt, valVars >>
        \/ /\ item.type = "MENU_ITEM_INPUT"
           /\ notes' = << >>
           /\ lastLeft' = NoLeft
           /\ downRun' = -1
           /\ IF ~isEditModeEnabled
              THEN /\ isEditModeEnabled' = TRUE
                   /\ lcd' = drawCursor(lcd, currentMenuTable, top,
                                        cursorPosition, TRUE)
                   /\ editStart' = [tab |-> e[1], idx |-> e[2], value |-> 0,
                                    moved |-> FALSE]
              ELSE /\ editStart' = KeptEdit
                   /\ UNCHANGED << isEditModeEnabled, lcd >>
           /\ UNCHANGED << cursorPosition, top, bottom, currentMenuTable,
                           currentMenuSize, memento, leftAt, valVars >>
        \/ /\ item.type \in { "MENU_ITEM_PROGRESS", "MENU_ITEM_LIST" }
           /\ notes' = << >>
           /\ lastLeft' = NoLeft
           /\ downRun' = -1
           /\ initialItemIndex' =
                IF item.type = "MENU_ITEM_LIST"
                THEN SnapshotOnEnter(isEditModeEnabled, initialItemIndex,
                                     itemIndex, e)
                ELSE initialItemIndex
           /\ initialProgress' =
                IF item.type = "MENU_ITEM_PROGRESS"
                THEN SnapshotOnEnter(isEditModeEnabled, initialProgress,
                                     progress, e)
                ELSE initialProgress
           /\ IF ~isEditModeEnabled
              THEN /\ isEditModeEnabled' = TRUE
                   /\ lcd' = drawCursor(lcd, currentMenuTable, top,
                                        cursorPosition, TRUE)
                   /\ editStart' = [tab |-> e[1], idx |-> e[2],
                                    value |-> getItemIndex(e, itemIndex,
                                                           progress),
                                    moved |-> FALSE]
              ELSE /\ editStart' = KeptEdit
                   /\ UNCHANGED << isEditModeEnabled, lcd >>
           /\ UNCHANGED << cursorPosition, top, bottom, currentMenuTable,
                           currentMenuSize, memento, leftAt, itemIndex, progress >>
     /\ ret' = "void"
     /\ UNCHANGED << isCharPickerActive, enableUpdate, cfgVars, budget >>

\* back() that returns early for the text input only
EndsEdit_inputOnly(editing, type) == editing /\ type = "MENU_ITEM_INPUT"

\* the cases of back() that end the edit and return before the ascent
EndsEdit(editing, type) ==
  /\ editing
  /\ type \in { "MENU_ITEM_INPUT", "MENU_ITEM_LIST", "MENU_ITEM_PROGRESS" }

\* a commit notification invoked only when the edit was not cancelled
CommitNote_unlessCancelled(editCancelled, v) ==
  IF editCancelled THEN << >> ELSE << << "commit", v >> >>

\* the call of the entry's callback with getItemIndex() in back()
CommitNote(editCancelled, v) == << << "commit", v >> >>

back(editCancelled) ==
  LET item == At(currentMenuTable, cursorPosition)
      e == curEntry
      header == At(currentMenuTable, 0)
  IN /\ lastOp' = IF editCancelled THEN "back(true)" ELSE "back(false)"
     /\ \/ /\ EndsEdit(isEditModeEnabled, item.type)
           /\ item.type = "MENU_ITEM_INPUT"
           /\ isEditModeEnabled' = FALSE
           /\ lcd' = Redraw(FALSE)
           /\ notes' = << <<"commitStr", 0>> >>
           /\ lastLeft' = NoLeft
           /\ editStart' = [NoEdit EXCEPT !.moved = editStart.moved]
           /\ UNCHANGED << cursorPosition, top, bottom, currentMenuTable,
                           currentMenuSize, valVars >>
        \/ /\ EndsEdit(isEditModeEnabled, item.type)
           /\ item.type \in { "MENU_ITEM_LIST", "MENU_ITEM_PROGRESS" }
           /\ isEditModeEnabled' = FALSE
           /\ itemIndex' = IF editCancelled /\ item.type = "MENU_ITEM_LIST"
                           THEN restoreProgress(itemIndex, initialItemIndex, e)
                           ELSE itemIndex
           /\ progress' = IF editCancelled /\ item.type = "MENU_ITEM_PROGRESS"
                          THEN restoreProgress(progress, initialProgress, e)
                          ELSE progress
           /\ notes' = CommitNote(editCancelled,
                                   getItemIndex(e, itemIndex', progress'))
           /\ lcd' = Redraw(FALSE)
           /\ lastLeft' = NoLeft
           /\ editStart' = [NoEdit EXCEPT !.moved = editStart.moved]
           /\ UNCHANGED << cursorPosition, top, bottom, currentMenuTable,
                           currentMenuSize, initialItemIndex,
                           initialProgress >>
        \/ /\ ~EndsEdit(isEditModeEnabled, item.type)
           /\ notes' = << >>
           /\ IF isSubMenu /\ header.sub # "NULL"
              THEN /\ leaveSubMenu(header.sub)
                   /\ lastLeft' = IF lastLeft # NoLeft /\ ~lastLeft.returned
                                  THEN [lastLeft EXCEPT !.returned = TRUE]
                                  ELSE NoLeft
              ELSE /\ lastLeft' = NoLeft
                   /\ UNCHANGED << cursorPosition, top, bottom,
                                   currentMenuTable, currentMenuSize, lcd >>
           /\ editStart' = KeptEdit
           /\ UNCHANGED << isEditModeEnabled, valVars >>
     /\ ret' = "void"
     /\ downRun' = -1
     /\ UNCHANGED << isCharPickerActive, enableUpdate, memento, leftAt, cfgVars,
                     budget >>

left ==
  LET item == At(currentMenuTable, cursorPosition)
      e == curEntry
  IN /\ ~(isEditModeEnabled /\ isCharPickerActive)
     /\ lastOp' = "left"
     /\ \/ /\ item.type = "MENU_ITEM_LIST"
           /\ LET previousIndex == itemIndex[e] % U8
                  new == cycleLeft(itemIndex[e], itemCount)
              IN /\ itemIndex' = [itemIndex EXCEPT ![e] = new]
                 /\ notes' = << <<"change", new>> >>
                 /\ lcd' = IF previousIndex # new
                           THEN Redraw(isEditModeEnabled) ELSE lcd
                 /\ editStart' =
                      [KeptEdit EXCEPT !.moved =
                         @ \/ (isEditModeEnabled /\ new # itemIndex[e])]
           /\ UNCHANGED << progress, budget >>
        \/ /\ item.type = "MENU_ITEM_PROGRESS"
           /\ notes' = << >>
           /\ IF isEditModeEnabled
              THEN /\ budget > 0
                   /\ budget' = budget - 1
                   /\ progress' = [progress EXCEPT
                                     ![e] = decrement(@, stepLength)]
                   /\ lcd' = Redraw(isEditModeEnabled)
                   /\ editStart' =
                        [editStart EXCEPT !.moved =
                           @ \/ progress'[e] # progress[e]]
              ELSE /\ editStart' = KeptEdit
                   /\ UNCHANGED << progress, lcd, budget >>
           /\ UNCHANGED itemIndex
        \/ /\ item.type \notin { "MENU_ITEM_LIST", "MENU_ITEM_PROGRESS" }
           /\ notes' = << >>
           /\ editStart' = KeptEdit
           /\ UNCHANGED << itemIndex, progress, lcd, budget >>
     /\ ret' = "void"
     /\ lastLeft' = NoLeft
     /\ downRun' = -1
     /\ UNCHANGED << navVars, isCharPickerActive, enableUpdate, memento, leftAt,
                     cfgVars, initialItemIndex, initialProgress >>

right ==
  LET item == At(currentMenuTable, cursorPosition)
      e == curEntry
  IN /\ ~(isEditModeEnabled /\ isCharPickerActive)
     /\ lastOp' = "right"
     /\ \/ /\ item.type = "MENU_ITEM_LIST"
           /\ LET new == cycleRight(itemIndex[e], itemCount)
              IN /\ itemIndex' = [itemIndex EXCEPT ![e] = new]
                 /\ notes' = << <<"change", new>> >>
                 /\ lcd' = Redraw(isEditModeEnabled)
                 /\ editStart' =
                      [KeptEdit EXCEPT !.moved =
                         @ \/ (isEditModeEnabled /\ new # itemIndex[e])]
           /\ UNCHANGED << progress, budget >>
        \/ /\ item.type = "MENU_ITEM_PROGRESS"
           /\ notes' = << >>
           /\ IF isEditModeEnabled
              THEN /\ budget > 0
                   /\ budget' = budget - 1
                   /\ progress' = [progress EXCEPT
                                     ![e] = increment(@, stepLength)]
                   /\ lcd' = Redraw(isEditModeEnabled)
                   /\ editStart' =
                        [editStart EXCEPT !.moved =
                           @ \/ progress'[e] # progress[e]]
              ELSE /\ editStart' = KeptEdit
                   /\ UNCHANGED << progress, lcd, budget >>
           /\ UNCHANGED itemIndex
        \/ /\ item.type \notin { "MENU_ITEM_LIST", "MENU_ITEM_PROGRESS" }
           /\ notes' = << >>
           /\ editStart' = KeptEdit
           /\ UNCHANGED << itemIndex, progress, lcd, budget >>
     /\ ret' = "void"
     /\ lastLeft' = NoLeft
     /\ downRun' = -1
     /\ UNCHANGED << navVars, isCharPickerActive, enableUpdate, memento, leftAt,
                     cfgVars, initialItemIndex, initialProgress >>

\* hide() that also puts the cursor and the window back to the first entry
hide_resets ==
  /\ lastOp' = "hide"
  /\ ret' = "void"
  /\ notes' = << >>
  /\ lastLeft' = NoLeft
  /\ enableUpdate' = FALSE
  /\ lcd' = BlankLcd
  /\ downRun' = -1
  /\ editStart' = KeptEdit
  /\ cursorPosition' = 1
  /\ top' = 1
  /\ bottom' = maxRows
  /\ UNCHANGED << isEditModeEnabled, currentMenuTable, currentMenuSize,
                  isCharPickerActive, memento, leftAt, cfgVars, valVars, budget >>

hide ==
  /\ lastOp' = "hide"
  /\ ret' = "void"
  /\ notes' = << >>
  /\ lastLeft' = NoLeft
  /\ enableUpdate' = FALSE
  /\ lcd' = BlankLcd
  /\ downRun' = -1
  /\ editStart' = KeptEdit
  /\ UNCHANGED << navVars, isCharPickerActive, memento, leftAt, cfgVars, valVars,
                  budget >>

show ==
  /\ lastOp' = "show"
  /\ ret' = "void"
  /\ notes' = << >>
  /\ lastLeft' = NoLeft
  /\ enableUpdate' = TRUE
  /\ lcd' = update(lcd, TRUE, currentMenuTable, currentMenuSize, top, bottom,
                   cursorPosition, isEditModeEnabled)
  /\ downRun' = -1
  /\ editStart' = KeptEdit
  /\ UNCHANGED << navVars, isCharPickerActive, memento, leftAt, cfgVars, valVars,
                  budget >>

Next ==
  \/ up
  \/ down
  \/ enter
  \/ \E editCancelled \in BOOLEAN : back(editCancelled)
  \/ left
  \/ right
  \/ hide
  \/ show

Spec == Init /\ [][Next]_vars

\* ------------------------------------------------------------------------
\* The table reads of a call, as <<table, index>>
\* ------------------------------------------------------------------------
Reads(tab, S) == { <<tab, i>> : i \in S }

\* the reads of the do-while loop of up()
RECURSIVE UpLoopReads(_)
UpLoopReads(cur) ==
  isAtTheStartReads(currentMenuTable, cur)
  \cup ( IF isAtTheStart(currentMenuTable, cur) \/ isEditModeEnabled
         THEN { }
         ELSE LET c2 == (cur - 1) % U8
              IN { c2 } \cup ( IF isHidden(currentMenuTable, c2)
                               THEN UpLoopReads(c2) ELSE { } ) )

\* the reads of the do-while loop of down()
RECURSIVE DownLoopReads(_)
DownLoopReads(cur) ==
  isAtTheEndReads(currentMenuTable, currentMenuSize, cur)
  \cup ( IF isAtTheEnd(currentMenuTable, currentMenuSize, cur)
            \/ isEditModeEnabled
         THEN { }
         ELSE LET c2 == (cur + 1) % U8
              IN { c2 } \cup ( IF isHidden(currentMenuTable, c2)
                               THEN DownLoopReads(c2) ELSE { } ) )

\* update() is the last step of the handlers that call it: it reads what
\* drawMenu and drawCursor read on the state the handler leaves.  enter()
\* calls drawCursor alone, whether updates are enabled or not.
redrawReads ==
  Reads(currentMenuTable,
        updateReads(enableUpdate, currentMenuTable, currentMenuSize, top,
                    bottom, cursorPosition, isEditModeEnabled)
        \cup drawCursorReads(currentMenuTable, cursorPosition))

\* up() before update(): the scan above the cursor and the loop
upReads ==
  Reads(currentMenuTable,
        checkAllAboveHiddenReads(currentMenuTable, cursorPosition)
        \cup UpLoopReads(cursorPosition))

\* down() before update(): the scan below the cursor and the loop
downReads ==
  Reads(currentMenuTable,
        checkAllBelowHiddenReads(currentMenuTable, currentMenuSize,
                                 cursorPosition)
        \cup DownLoopReads(cursorPosition))

\* enter() before the redraw: the entry under the cursor and, on a descent,
\* the header of the table and the size of the sub-menu
enterReads ==
  LET item == At(currentMenuTable, cursorPosition)
  IN Reads(currentMenuTable, { cursorPosition })
     \cup ( IF item.type = "MENU_ITEM_SUB_MENU" /\ item.sub # "NULL"
            THEN Reads(currentMenuTable, { 0 })
                 \cup Reads(item.sub, getMenuSizeReads(item.sub))
            ELSE { } )

\* back() before update(): the entry under the cursor and, when it does not
\* end an edit, the header, the size of the parent and the parent's header
backReads ==
  LET item == At(currentMenuTable, cursorPosition)
      header == At(currentMenuTable, 0)
  IN Reads(currentMenuTable, { cursorPosition })
     \cup ( IF EndsEdit(isEditModeEnabled, item.type) THEN { }
            ELSE Reads(currentMenuTable, { 0 })
                 \cup ( IF isSubMenu /\ header.sub # "NULL"
                        THEN Reads(header.sub,
                                   getMenuSizeReads(header.sub) \cup { 0 })
                        ELSE { } ) )

\* left() and right() before update(): the entry under the cursor
sideReads ==
  IF isEditModeEnabled /\ isCharPickerActive THEN { }
  ELSE Reads(currentMenuTable, { cursorPosition })

\* the table reads of the redraw of a state and of the handlers called in it
CallReads ==
  redrawReads \cup upReads \cup downReads \cup enterReads \cup backReads
  \cup sideReads

\* ------------------------------------------------------------------------
\* Vocabulary of the properties
\* ------------------------------------------------------------------------
NumEntries(tab) == Len(menu[tab]) - 2

ShownAt(tab, i) == i \in 1..NumEntries(tab) /\ ~hidden[<<tab, i>>]

ShownBelow(tab, c) == { i \in (c + 1)..NumEntries(tab) : ~hidden[<<tab, i>>] }

ShownAbove(tab, c) == { i \in 1..(c - 1) : ~hidden[<<tab, i>>] }

ShownCount(tab) == Cardinality(ShownBelow(tab, 0))

Least(S) == CHOOSE x \in S : \A y \in S : x <= y

Greatest(S) == CHOOSE x \in S : \A y \in S : x >= y

EditableEntries == DOMAIN itemIndex \cup DOMAIN progress

\* ------------------------------------------------------------------------
\* Properties
\* ------------------------------------------------------------------------

\* C1: after any sequence of up(), down(), enter() and back() the cursor lies
\* inside the window: top <= cursorPosition <= bottom.
C1_CursorInWindow == top <= cursorPosition /\ cursorPosition <= bottom

\* C2: the entry under the cursor is never hidden and never the header or
\* the end marker, right after setup and after a descent included.
C2_CursorOnShownEntry == ShownAt(currentMenuTable, cursorPosition)

\* C3: enter() on a sub-menu link immediately followed by back() makes the
\* table that was left active again with the cursor and the window it had.
C3_RoundTrip ==
  lastLeft.returned =>
    /\ currentMenuTable = lastLeft.tab
    /\ cursorPosition = lastLeft.cursorPosition
    /\ top = lastLeft.top
    /\ bottom = lastLeft.bottom

\* a descent from a scrolled window has just been undone by back()
C3_Witness ==
  /\ lastLeft.returned
  /\ lastLeft.top > 1
  /\ lastOp \in { "back(true)", "back(false)" }

\* C4: back(true) ends an edit of a list or progress entry with the value the
\* entry had when enter() started the edit, and the commit notification is
\* invoked with that value.
C4_CancelRestores ==
  [][ LET e == << editStart.tab, editStart.idx >>
      IN ( /\ isEditModeEnabled
           /\ e \in EditableEntries
           /\ lastOp' = "back(true)" )
         => /\ ~isEditModeEnabled'
            /\ e \in DOMAIN itemIndex => itemIndex'[e] = editStart.value
            /\ e \in DOMAIN progress => progress'[e] = editStart.value
            /\ notes' = << << "commit", editStart.value >> >> ]_vars

\* an edit whose gestures changed the value has just been cancelled
C4_Witness ==
  /\ lastOp = "back(true)"
  /\ editStart.moved
  /\ curEntry \in EditableEntries
  /\ Len(notes) = 1
  /\ notes[1][1] = "commit"

RECURSIVE RightTimes(_, _, _)
RightTimes(k, i, n) == IF k = 0 THEN i ELSE RightTimes(k - 1, cycleRight(i, n), n)

\* C5: on a list with n >= 1 items right() turns index i into (i+1) mod n and
\* left() turns it into (i-1) mod n; n times right() gives i again and left()
\* undoes right().
C5_ListWraps ==
  [][ ( /\ curEntry \in DOMAIN itemIndex
        /\ lastOp' \in { "left", "right" } )
      => LET n == itemCount
             i == itemIndex[curEntry]
         IN /\ i \in 0..(n - 1)
            /\ lastOp' = "right" => itemIndex'[curEntry] = (i + 1) % n
            /\ lastOp' = "left" => itemIndex'[curEntry] = (i - 1) % n
            /\ \A j \in 0..(n - 1) :
                 /\ RightTimes(n, j, n) = j
                 /\ cycleLeft(cycleRight(j, n), n) = j
                 /\ cycleRight(cycleLeft(j, n), n) = j ]_vars

\* left() has just wrapped a list of several items from 0 to the last index
C5_Witness ==
  /\ lastOp = "left"
  /\ curEntry \in DOMAIN itemIndex
  /\ itemCount >= 2
  /\ itemIndex[curEntry] = itemCount - 1

\* C6: whatever the step length and the start value inside the bounds, the
\* value of a progress entry stays within [MIN_PROGRESS, MAX_PROGRESS].
C6_ProgressInBounds ==
  \A e \in DOMAIN progress :
    MIN_PROGRESS <= progress[e] /\ progress[e] <= MAX_PROGRESS

\* C7: when the active table has no more shown entries than the display has
\* rows, neither the up nor the down indicator is on the display.
C7_NoArrowsWhenAllFit ==
  ShownCount(currentMenuTable) <= maxRows => ~lcd.up /\ ~lcd.down

\* such a table drawn with a window that has been scrolled
C7_Witness ==
  /\ ShownCount(currentMenuTable) <= maxRows
  /\ top > 1
  /\ enableUpdate
  /\ lcd.cursor >= 0
  /\ \E i \in 1..(top - 1) : ShownAt(currentMenuTable, i)

\* C8: a successful down() puts the cursor on the nearest shown entry below
\* the old cursor, a successful up() on the nearest shown entry above it.
C8_MovesToNearestShown ==
  [][ /\ ( lastOp' = "down" /\ ret' = "true" )
         => /\ ShownBelow(currentMenuTable, cursorPosition) # {}
            /\ cursorPosition' =
                 Least(ShownBelow(currentMenuTable, cursorPosition))
      /\ ( lastOp' = "up" /\ ret' = "true" )
         => /\ ShownAbove(currentMenuTable, cursorPosition) # {}
            /\ cursorPosition' =
                 Greatest(ShownAbove(currentMenuTable, cursorPosition)) ]_vars

\* entry 3 of 5 is hidden and down() has just moved the cursor from 2 to 4
C8_Witness ==
  /\ lastOp = "down"
  /\ ret = "true"
  /\ NumEntries(currentMenuTable) = 5
  /\ cursorPosition = 4
  /\ hidden[<< currentMenuTable, 3 >>]
  /\ ~hidden[<< currentMenuTable, 2 >>]

\* C9: in a table of n shown entries, n >= displayRows, n-1 down() calls from
\* cursor 1 and window [1, displayRows] all succeed and end on entry n with
\* the window [n-displayRows+1, n]; one more down() fails and keeps entry n.
C9_DownToLastEntry ==
  [][ LET n == NumEntries(currentMenuTable)
      IN ( /\ ShownCount(currentMenuTable) = n
           /\ n >= maxRows
           /\ downRun >= 0
           /\ lastOp' = "down" )
         => IF downRun < n - 1
            THEN /\ ret' = "true"
                 /\ downRun' = n - 1 =>
                      /\ cursorPosition' = n
                      /\ top' = n - maxRows + 1
                      /\ bottom' = n
            ELSE /\ ret' = "false"
                 /\ cursorPosition' = n ]_vars

\* C10: in edit mode up() and down() return false and change neither the
\* cursor, the window, the active table nor the edit flag.
C10_NoMoveWhileEditing ==
  [][ ( isEditModeEnabled /\ lastOp' \in { "up", "down" } )
      => /\ ret' = "false"
         /\ UNCHANGED << cursorPosition, top, bottom, currentMenuTable,
                         isEditModeEnabled >> ]_vars

\* down() has just been refused in edit mode with a shown entry below
C10_Witness ==
  /\ isEditModeEnabled
  /\ lastOp = "down"
  /\ ret = "false"
  /\ ShownBelow(currentMenuTable, cursorPosition) # {}

\* C11: while browsing, up() (down()) returns true exactly when a shown entry
\* exists above (below) the cursor; when it returns false the cursor and the
\* window are unchanged, also behind a run of hidden entries.
C11_FailsOnlyAtBoundary ==
  [][ ( ~isEditModeEnabled /\ lastOp' \in { "up", "down" } )
      => /\ lastOp' = "down" =>
              ( ret' = "true" <=>
                  ShownBelow(currentMenuTable, cursorPosition) # {} )
         /\ lastOp' = "up" =>
              ( ret' = "true" <=>
                  ShownAbove(currentMenuTable, cursorPosition) # {} )
         /\ ret' = "false" => UNCHANGED << cursorPosition, top, bottom >> ]_vars

\* down() has just been refused while browsing, with only hidden entries
\* between the cursor and the end marker
C11_Witness ==
  /\ ~isEditModeEnabled
  /\ lastOp = "down"
  /\ ret = "false"
  /\ cursorPosition < NumEntries(currentMenuTable)
  /\ hidden[<< currentMenuTable, cursorPosition + 1 >>]

\* C12: while browsing, back() on the root table changes neither the active
\* table, the cursor, the window nor the edit flag, and back() on a sub-menu
\* table activates the table its header names as parent.
C12_BackWhileBrowsing ==
  [][ ( ~isEditModeEnabled /\ lastOp' \in { "back(true)", "back(false)" } )
      => IF currentMenuTable = "root"
         THEN UNCHANGED << currentMenuTable, cursorPosition, top, bottom,
                           isEditModeEnabled >>
         ELSE /\ currentMenuTable' = menu[currentMenuTable][1].sub
              /\ ~isEditModeEnabled' ]_vars

\* back() has just ascended from the innermost table to the one above it
C12_Witness ==
  /\ lastOp \in { "back(true)", "back(false)" }
  /\ ~isEditModeEnabled
  /\ notes = << >>
  /\ currentMenuTable = "sub"

\* C13: hide() and show() change neither the cursor, the window, the edit
\* flag, the active table nor any entry value, so hide() followed by show()
\* leaves the navigation state as it was before hide().
C13_HideShowKeepState ==
  [][ lastOp' \in { "hide", "show" }
      => UNCHANGED << cursorPosition, top, bottom, isEditModeEnabled,
                      currentMenuTable, currentMenuSize, itemIndex,
                      initialItemIndex, progress, initialProgress >> ]_vars

\* show() has just redrawn a sub-menu whose window is scrolled
C13_Witness ==
  /\ lastOp = "show"
  /\ enableUpdate
  /\ currentMenuTable # "root"
  /\ top > 1
  /\ lcd.cursor >= 0

\* the value of a list or progress entry
ValueOf(e) == IF e \in DOMAIN itemIndex THEN itemIndex[e] ELSE progress[e]

\* the notifications of the last call that are commit notifications
CommitsIn(ns) == { k \in 1..Len(ns) : ns[k][1] = "commit" }

SkippedBetween(tab, c, d) ==
  Cardinality({ i \in 1..NumEntries(tab) :
                  /\ hidden[<< tab, i >>]
                  /\ \/ c < i /\ i < d
                     \/ d < i /\ i < c })

\* C15: when a successful up() or down() moves the window, top and bottom
\* shift together by the number of hidden entries the move skipped plus one,
\* whatever the number of display rows.
C15_WindowShift ==
  [][ ( /\ lastOp' \in { "up", "down" }
        /\ ret' = "true"
        /\ << top', bottom' >> # << top, bottom >> )
      => LET k == SkippedBetween(currentMenuTable, cursorPosition,
                                 cursorPosition') + 1
         IN IF lastOp' = "down"
            THEN top' = top + k /\ bottom' = bottom + k
            ELSE top' = top - k /\ bottom' = bottom - k ]_vars

\* the display row of the cursor inside the window
CursorRow == Constrain(cursorPosition - top, 0, maxRows - 1)

\* C16: a successful down() issued with the cursor not on the last display
\* row (and a shown entry below it) leaves the window unchanged, and so does
\* a successful up() issued with the cursor not on the first display row.
C16_WindowKeptInside ==
  [][ /\ ( /\ lastOp' = "down"
           /\ ret' = "true"
           /\ CursorRow # maxRows - 1
           /\ ShownBelow(currentMenuTable, cursorPosition) # {} )
         => UNCHANGED << top, bottom >>
      /\ ( /\ lastOp' = "up"
           /\ ret' = "true"
           /\ CursorRow # 0 )
         => UNCHANGED << top, bottom >> ]_vars

\* the greatest index among the entries on the display, 0 when none is drawn
LastDrawn == Greatest({ lcd.rows[r] : r \in DOMAIN lcd.rows })

\* C17: while browsing a table with more shown entries than display rows, the
\* down indicator is on the display exactly when a shown entry lies below the
\* last drawn entry, the last entry of the table included.
C17_DownIndicator ==
  ( /\ enableUpdate
    /\ ~isEditModeEnabled
    /\ ShownCount(currentMenuTable) > maxRows )
  => ( lcd.down <=> ShownBelow(currentMenuTable, LastDrawn) # {} )

\* the snapshot a list or progress entry keeps for the cancel of an edit
SnapshotOf(e) ==
  IF e \in DOMAIN itemIndex THEN initialItemIndex[e] ELSE initialProgress[e]

\* C18: enter() on a list or progress entry takes the snapshot when it turns
\* browsing into editing; enter() issued while editing changes neither the
\* snapshot, the value nor the edit flag, and back(true) then still restores
\* the value the entry had when the edit began.
C18_SnapshotOnlyOnEntry ==
  [][ /\ ( /\ ~isEditModeEnabled
           /\ curEntry \in EditableEntries
           /\ lastOp' = "enter" )
         => /\ isEditModeEnabled'
            /\ SnapshotOf(curEntry)' = ValueOf(curEntry)
            /\ UNCHANGED << itemIndex, progress >>
      /\ ( /\ isEditModeEnabled
           /\ curEntry \in EditableEntries
           /\ lastOp' = "enter" )
         => UNCHANGED << initialItemIndex, initialProgress, itemIndex,
                         progress, isEditModeEnabled >>
      /\ ( /\ isEditModeEnabled
           /\ curEntry \in EditableEntries )
         => /\ SnapshotOf(curEntry) = editStart.value
            /\ lastOp' = "back(true)" => ValueOf(curEntry)' = editStart.value
    ]_vars

\* enter() has just been issued again in an edit whose gestures have moved
\* the value away from the snapshot
C18_Witness ==
  /\ lastOp = "enter"
  /\ isEditModeEnabled
  /\ curEntry \in EditableEntries
  /\ editStart.moved
  /\ ValueOf(curEntry) # SnapshotOf(curEntry)

\* C19: back() issued while editing a list, progress or text entry only ends
\* the edit: the active table, the cursor and the window are unchanged, in a
\* sub-menu too, and the ascent takes a further back().
C19_BackEndsEditOnly ==
  [][ ( /\ isEditModeEnabled
        /\ curType \in { "MENU_ITEM_LIST", "MENU_ITEM_PROGRESS",
                         "MENU_ITEM_INPUT" }
        /\ lastOp' \in { "back(true)", "back(false)" } )
      => /\ ~isEditModeEnabled'
         /\ UNCHANGED << currentMenuTable, currentMenuSize, cursorPosition,
                         top, bottom >> ]_vars

\* back() has just ended an edit inside a sub-menu, which is still active
C19_Witness ==
  /\ lastOp \in { "back(true)", "back(false)" }
  /\ ~isEditModeEnabled
  /\ currentMenuTable = "sub"
  /\ curEntry \in EditableEntries
  /\ CommitsIn(notes) # {}

\* the notifications of the last call that are value-changed notifications
ChangesIn(ns) == { k \in 1..Len(ns) : ns[k][1] = "change" }

\* C20: on a list entry left() and right() invoke the value-changed
\* notification only when the gesture has changed the index.
C20_ChangeOnlyWhenChanged ==
  [][ ( /\ curEntry \in DOMAIN itemIndex
        /\ lastOp' \in { "left", "right" }
        /\ itemIndex'[curEntry] = itemIndex[curEntry] )
      => ChangesIn(notes') = {} ]_vars

\* C21: enter() on a sub-menu link with a linked table stores top, bottom and
\* cursorPosition in the header of the table it leaves and in no other header,
\* activates the linked table and sets top = 1, bottom = displayRows and
\* cursorPosition = 1; on a link without a table enter() changes nothing.
C21_Descent ==
  [][ ( curType = "MENU_ITEM_SUB_MENU" /\ lastOp' = "enter" )
      => LET sub == menu[currentMenuTable][cursorPosition + 1].sub
         IN IF sub # "NULL"
            THEN /\ memento' =
                      [memento EXCEPT ![currentMenuTable] =
                         [top |-> top, bottom |-> bottom,
                          cursorPosition |-> cursorPosition]]
                 /\ currentMenuTable' = sub
                 /\ top' = 1
                 /\ bottom' = maxRows
                 /\ cursorPosition' = 1
            ELSE UNCHANGED << cursorPosition, top, bottom, isEditModeEnabled,
                              currentMenuTable, currentMenuSize, memento,
                              itemIndex, initialItemIndex, progress,
                              initialProgress, lcd >> ]_vars

\* enter() has just descended into the innermost table from a scrolled window
C21_Witness ==
  /\ lastOp = "enter"
  /\ currentMenuTable = "subsub"
  /\ cursorPosition = 1
  /\ memento["sub"].top > 1
  /\ memento["subsub"].top = 0

\* C22: whenever back() makes a table active again, the cursor and the window
\* are the ones that table had when enter() last left it, whatever happened in
\* the tables below it in between.
C22_AscentRestores ==
  [][ ( /\ lastOp' \in { "back(true)", "back(false)" }
        /\ currentMenuTable' # currentMenuTable )
      => /\ cursorPosition' = leftAt[currentMenuTable'].cursorPosition
         /\ top' = leftAt[currentMenuTable'].top
         /\ bottom' = leftAt[currentMenuTable'].bottom ]_vars

\* back() has just returned to the root table from a sub-menu that had itself
\* been left for the innermost table and come back to
C22_Witness ==
  /\ lastOp \in { "back(true)", "back(false)" }
  /\ currentMenuTable = "root"
  /\ ~isEditModeEnabled
  /\ notes = << >>
  /\ leftAt["root"].cursorPosition = 2
  /\ leftAt["sub"].cursorPosition = 3
  /\ cursorPosition = 2
  /\ ~lastLeft.returned

\* C23: in every reachable state the window spans the rows of the display:
\* bottom - top = displayRows - 1.
C23_WindowHeight == bottom - top = maxRows - 1

\* up() has just put the cursor on the first row of a window that lies
\* between the first and the last entry of the table
C23_Witness ==
  /\ lastOp = "up"
  /\ ret = "true"
  /\ cursorPosition = top
  /\ top > 1
  /\ bottom < NumEntries(currentMenuTable)

\* C24: while updates are disabled (between hide() and the next show()) no
\* input handler changes what is on the display, the cursor redraw of an
\* enter() that starts edit mode included.
C24_NoDrawingWhileHidden ==
  [][ ( /\ ~enableUpdate
        /\ lastOp' \in { "up", "down", "enter", "back(true)", "back(false)",
                         "left", "right" } )
      => lcd' = lcd ]_vars

\* C25: after a successful up() or down() on a table with hidden entries the
\* cursor marker is on the display row that shows the entry under the cursor.
C25_MarkerOnCursorEntry ==
  ( /\ lastOp \in { "up", "down" }
    /\ ret = "true"
    /\ enableUpdate
    /\ \E i \in 1..NumEntries(currentMenuTable) :
         hidden[<< currentMenuTable, i >>] )
  => /\ lcd.cursor \in DOMAIN lcd.rows
     /\ lcd.rows[lcd.cursor] = cursorPosition

\* C26: whenever edit mode is active the entry under the cursor is a list,
\* progress or text entry, and it is the entry on which enter() started the
\* edit.
C26_EditStaysOnEntry ==
  isEditModeEnabled
  => /\ curType \in { "MENU_ITEM_LIST", "MENU_ITEM_PROGRESS",
                      "MENU_ITEM_INPUT" }
     /\ curEntry = << editStart.tab, editStart.idx >>

\* an edit of an entry that is not the first of its sub-menu is in course
\* and up() has just been refused
C26_Witness ==
  /\ isEditModeEnabled
  /\ lastOp = "up"
  /\ ret = "false"
  /\ currentMenuTable = "sub"
  /\ cursorPosition = 2
  /\ ~hidden[<< "sub", 1 >>]

\* the number of levels between a table and the root table
RECURSIVE Depth(_)
Depth(tab) ==
  IF menu[tab][1].type = "MENU_ITEM_MAIN_MENU_HEADER" THEN 0
  ELSE 1 + Depth(menu[tab][1].sub)

\* the back() calls it takes to browse the root table
BacksToRoot == Depth(currentMenuTable) + ( IF isEditModeEnabled THEN 1 ELSE 0 )

\* C27: repeated back() calls reach browsing on the root table: every back()
\* brings it one call nearer, the first one issued in edit mode by ending the
\* edit, each later one by ascending exactly one level; back() never starts
\* an edit, never descends and never moves the cursor inside a table.
C27_BackLeadsToRoot ==
  [][ lastOp' \in { "back(true)", "back(false)" }
      => /\ BacksToRoot' = ( IF BacksToRoot > 0 THEN BacksToRoot - 1 ELSE 0 )
         /\ ~isEditModeEnabled'
         /\ isEditModeEnabled => currentMenuTable' = currentMenuTable
         /\ ( ~isEditModeEnabled /\ currentMenuTable # "root" )
              => currentMenuTable' = menu[currentMenuTable][1].sub
         /\ currentMenuTable' = currentMenuTable
              => UNCHANGED << cursorPosition, top, bottom >> ]_vars

\* back() has just ascended from the innermost table, one more back() away
\* from browsing the root table
C27_Witness ==
  /\ lastOp \in { "back(true)", "back(false)" }
  /\ currentMenuTable = "sub"
  /\ ~isEditModeEnabled
  /\ notes = << >>
  /\ leftAt["sub"].cursorPosition = cursorPosition
  /\ BacksToRoot = 1

\* C28: in every reachable state, the redraw of the state and every handler
\* (up, down, enter, back, left, right) called in it read the tables only
\* at indices in [0, index of the end marker]: no scan runs past the
\* header or the end marker, also when bottom lies beyond the end marker.
C28_ReadsInsideTable == \A r \in CallReads : InTable(r[1], r[2])

\* right() has just redrawn a table with fewer entries than rows: bottom
\* lies beyond the end marker, and the drawing loop has read up to the end
\* marker
C28_Witness ==
  /\ lastOp = "right"
  /\ enableUpdate
  /\ NumEntries(currentMenuTable) < maxRows
  /\ bottom > currentMenuSize - 1
  /\ <<currentMenuTable, currentMenuSize - 1>> \in redrawReads

\* C29: for every position pos among the entries of the active table,
\* countNonHiddenBelow(pos) is the number of shown entries with an index in
\* [pos + 1, n] and checkAllBelowHidden(pos) holds exactly when there is
\* none; countNonHiddenAbove(pos) and checkAllAboveHidden(pos) are the same
\* over [1, pos - 1].
C29_ScansCoverAllEntries ==
  \A pos \in 1..NumEntries(currentMenuTable) :
    /\ countNonHiddenBelow(currentMenuTable, currentMenuSize, pos)
         = Cardinality(ShownBelow(currentMenuTable, pos))
    /\ checkAllBelowHidden(currentMenuTable, currentMenuSize, pos)
         <=> ShownBelow(currentMenuTable, pos) = { }
    /\ countNonHiddenAbove(currentMenuTable, pos)
         = Cardinality(ShownAbove(currentMenuTable, pos))
    /\ checkAllAboveHidden(currentMenuTable, pos)
         <=> ShownAbove(currentMenuTable, pos) = { }

====
